---- MODULE Spec2Model ----
(***************************************************************************)
(* Model of the array resampling utilities of dolphin/utils.py:            *)
(* gpu_is_available, take_looks, _make_dims_multiples, upsample_nearest.   *)
(*                                                                         *)
(* An array is a record                                                    *)
(*   [obj, dtype, ndim, n, rows, cols, v]                                  *)
(* obj   : "a" for the caller's own array object, "new" for an object      *)
(*         allocated during a call (a view, a copy, a fresh buffer);       *)
(* dtype : "float64", "bool" or "int64";                                   *)
(* ndim  : 2 or 3; n is the length of the leading axis (1 when ndim = 2);  *)
(* v     : the cells, a function on <<k, i, j>>, 0-based as in the code.   *)
(* A bool cell is 0 (False) or 1 (True); NaN is the float not-a-number.    *)
(* The array module xp is always numpy (get_array_module without cupy).    *)
(***************************************************************************)
EXTENDS Integers, Sequences, FiniteSets, TLC

VARIABLES arr, pc, call, reconciled, res, upcall, used_looks, up, gpu

vars == <<arr, pc, call, reconciled, res, upcall, used_looks, up, gpu>>

\* ------------------------------------------------------------------ bounds
MaxDim == 5
MaxLayers == 2
MaxLooks == 3
MaxUpDim == 2
MaxOut == 5
MaxGpus == 2
MaxMaskDim == 2

\* np.nan, encoded as a value no finite cell of the model takes (cells are >= 0)
NaN == -1

\* ------------------------------------------------------------ array values
Min(a, b) == IF a <= b THEN a ELSE b

Cells(n, rows, cols) == (0 .. n - 1) \X (0 .. rows - 1) \X (0 .. cols - 1)

Shape(a) == IF a.ndim = 3 THEN <<a.n, a.rows, a.cols>> ELSE <<a.rows, a.cols>>

\* value equality of two arrays (numpy's array_equal with NaN equal to NaN)
SameValues(a, b) == /\ Shape(a) = Shape(b)
                    /\ a.dtype = b.dtype
                    /\ a.v = b.v

Return(x) == [kind |-> "return", val |-> x]
Raise(e, m) == [kind |-> "raise", exc |-> e, msg |-> m]
None == [kind |-> "none"]

\* the input arrays: every shape up to MaxDim x MaxDim, 2D or a stack of up
\* to MaxLayers layers, with one of these contents; and every 2D float array
\* up to MaxMaskDim x MaxMaskDim of distinct finite cells with NaN at any set
\* of places
FloatPatterns == {"ones", "ramp", "nanmix", "allnan"}
BoolPatterns == {"true", "checker"}

Ramp(k, i, j, rows, cols) == 1 + (k * rows + i) * cols + j

Fill(p, k, i, j, rows, cols) ==
  CASE p = "ones" -> 1
    [] p = "ramp" -> Ramp(k, i, j, rows, cols)
    [] p = "nanmix" -> IF (k + i + j) % 2 = 1 THEN NaN ELSE Ramp(k, i, j, rows, cols)
    [] p = "allnan" -> NaN
    [] p = "true" -> 1
    [] p = "checker" -> (k + i + j) % 2

InputArray(p, ndim, n, rows, cols) ==
  [obj |-> "a",
   dtype |-> IF p \in BoolPatterns THEN "bool" ELSE "float64",
   ndim |-> ndim, n |-> n, rows |-> rows, cols |-> cols,
   v |-> [t \in Cells(n, rows, cols) |-> Fill(p, t[1], t[2], t[3], rows, cols)]]

MaskedArray(rows, cols, mask) ==
  [obj |-> "a", dtype |-> "float64", ndim |-> 2, n |-> 1, rows |-> rows, cols |-> cols,
   v |-> [t \in Cells(1, rows, cols) |->
            IF t \in mask THEN NaN ELSE Ramp(0, t[2], t[3], rows, cols)]]

MaskedArrays ==
  UNION { { MaskedArray(d[1], d[2], mask) : mask \in SUBSET Cells(1, d[1], d[2]) } :
          d \in (1 .. MaxMaskDim) \X (1 .. MaxMaskDim) }

Arrays ==
  MaskedArrays \cup
  { InputArray(p, 2, 1, rows, cols) :
      p \in FloatPatterns \cup BoolPatterns, rows \in 1 .. MaxDim, cols \in 1 .. MaxDim }
  \cup
  { InputArray(x[1], 3, x[2], x[3], x[4]) :
      x \in (FloatPatterns \cup BoolPatterns) \X (1 .. MaxLayers)
            \X (1 .. MaxDim) \X (1 .. MaxDim) }

\* `for a in arr`: layer k of a 3D array, a 2D view
Layer(a, k) ==
  [obj |-> "new", dtype |-> a.dtype, ndim |-> 2, n |-> 1,
   rows |-> a.rows, cols |-> a.cols,
   v |-> [t \in Cells(1, a.rows, a.cols) |-> a.v[<<k, t[2], t[3]>>]]]

\* xp.stack of a non-empty sequence of equally shaped 2D arrays
Stack(layers) ==
  [obj |-> "new", dtype |-> layers[1].dtype, ndim |-> 3, n |-> Len(layers),
   rows |-> layers[1].rows, cols |-> layers[1].cols,
   v |-> [t \in Cells(Len(layers), layers[1].rows, layers[1].cols) |->
            layers[t[1] + 1].v[<<0, t[2], t[3]>>]]]

\* ------------------------------------------------- _make_dims_multiples
EdgeStrategies == {"cutoff", "pad", "bogus"}
DefaultEdge == "cutoff"

PadVal_Zero(a) == 0

PadVal(a) == IF a.dtype = "bool" THEN 0 ELSE NaN

\* arr[:-row_cutoff, :] and arr[:, :-col_cutoff]: the leading rows and columns
Slice(a, rows, cols) ==
  [obj |-> "new", dtype |-> a.dtype, ndim |-> 2, n |-> 1, rows |-> rows, cols |-> cols,
   v |-> [t \in Cells(1, rows, cols) |-> a.v[t]]]

\* np.pad(arr, ((0, pad_rows), (0, pad_cols)), mode="constant", constant_values=pad_val)
Pad(a, pad_rows, pad_cols, pad_val) ==
  [obj |-> "new", dtype |-> a.dtype, ndim |-> 2, n |-> 1,
   rows |-> a.rows + pad_rows, cols |-> a.cols + pad_cols,
   v |-> [t \in Cells(1, a.rows + pad_rows, a.cols + pad_cols) |->
            IF t[2] < a.rows /\ t[3] < a.cols THEN a.v[t] ELSE pad_val]]

PadRows_Full(rows, row_looks) == row_looks - (rows % row_looks)

PadRows(rows, row_looks) == (row_looks - (rows % row_looks)) % row_looks

MakeDimsMultiples(a, row_looks, col_looks, how) ==
  LET row_cutoff == a.rows % row_looks
      col_cutoff == a.cols % col_looks
  IN  IF how = "cutoff"
      THEN Return(IF row_cutoff # 0 \/ col_cutoff # 0
                  THEN Slice(a, a.rows - row_cutoff, a.cols - col_cutoff)
                  ELSE a)
      ELSE IF how = "pad"
      THEN LET pad_rows == PadRows(a.rows, row_looks)
               pad_cols == PadRows(a.cols, col_looks)
           IN  Return(IF pad_rows > 0 \/ pad_cols > 0
                      THEN Pad(a, pad_rows, pad_cols, PadVal(a))
                      ELSE a)
      ELSE Raise("ValueError", how)

\* ------------------------------------------------------------- take_looks
FuncTypes == {"nansum", "sum", "max", "nofunc"}
NumpyFuncs == {"nansum", "sum", "max"}

Reshaped_BlockMajor(a, new_rows, row_looks, new_cols, col_looks, t) ==
  LET flat == ((t[1] * new_cols + t[3]) * row_looks + t[2]) * col_looks + t[4]
  IN  a.v[<<0, flat \div a.cols, flat % a.cols>>]

\* xp.reshape(arr, (new_rows, row_looks, new_cols, col_looks)) in C order:
\* element [a, b, c, d] is the element of flat index ((a*rl + b)*nc + c)*cl + d
Reshaped(a, new_rows, row_looks, new_cols, col_looks, t) ==
  LET flat == ((t[1] * row_looks + t[2]) * new_cols + t[3]) * col_looks + t[4]
  IN  a.v[<<0, flat \div a.cols, flat % a.cols>>]

\* the cells of block (i, j) along axes (1, 3) of the reshaped array, in order
BlockCells(a, new_rows, row_looks, new_cols, col_looks, i, j) ==
  [q \in 1 .. row_looks * col_looks |->
     Reshaped(a, new_rows, row_looks, new_cols, col_looks,
              <<i, (q - 1) \div col_looks, j, (q - 1) % col_looks>>)]

RECURSIVE SumOf(_)
SumOf(s) == IF s = <<>> THEN 0 ELSE Head(s) + SumOf(Tail(s))

RECURSIVE MaxOf(_)
MaxOf(s) == IF Len(s) = 1 THEN s[1]
            ELSE LET m == MaxOf(Tail(s)) IN IF Head(s) >= m THEN Head(s) ELSE m

HasNaN(s) == \E q \in 1 .. Len(s) : s[q] = NaN

ZeroNaN(s) == [q \in 1 .. Len(s) |-> IF s[q] = NaN THEN 0 ELSE s[q]]

Reduce_NaNPropagates(func_type, s) ==
  IF HasNaN(s) THEN NaN
  ELSE IF func_type = "max" THEN MaxOf(s) ELSE SumOf(s)

\* numpy's nansum, sum and max over the cells of one block
Reduce(func_type, s) ==
  CASE func_type = "nansum" -> SumOf(ZeroNaN(s))
    [] func_type = "sum" -> IF HasNaN(s) THEN NaN ELSE SumOf(s)
    [] func_type = "max" -> IF HasNaN(s) THEN NaN ELSE MaxOf(s)

ReducedDtype(func_type, dtype) ==
  IF dtype = "bool" /\ func_type \in {"nansum", "sum"} THEN "int64" ELSE dtype

BlockReduce(a, row_looks, col_looks, func_type) ==
  LET new_rows == a.rows \div row_looks
      new_cols == a.cols \div col_looks
  IN  [obj |-> "new", dtype |-> ReducedDtype(func_type, a.dtype), ndim |-> 2, n |-> 1,
       rows |-> new_rows, cols |-> new_cols,
       v |-> [t \in Cells(1, new_rows, new_cols) |->
                Reduce(func_type,
                       BlockCells(a, new_rows, row_looks, new_cols, col_looks,
                                  t[2], t[3]))]]

\* the first exception of a sequence of results, or the stack of their values
RECURSIVE FirstRaise(_)
FirstRaise(rs) == IF rs = <<>> THEN None
                  ELSE IF Head(rs).kind = "raise" THEN Head(rs)
                  ELSE FirstRaise(Tail(rs))

StackResults(rs) ==
  IF FirstRaise(rs).kind = "raise" THEN FirstRaise(rs)
  ELSE Return(Stack([k \in 1 .. Len(rs) |-> rs[k].val]))

TakeLooks2D(a, row_looks, col_looks, func_type, edge_strategy) ==
  LET dims == MakeDimsMultiples(a, row_looks, col_looks, edge_strategy)
  IN  IF dims.kind = "raise" THEN dims
      ELSE IF func_type \notin NumpyFuncs THEN Raise("AttributeError", func_type)
      ELSE Return(BlockReduce(dims.val, row_looks, col_looks, func_type))

\* the edge strategy the per-layer call of a 3D array runs with: the recursive
\* call passes (a, row_looks, col_looks, func_type) only
LayerEdge(edge_strategy) == DefaultEdge

TakeLooks_NoFastPath(a, row_looks, col_looks, func_type, edge_strategy) ==
  IF a.ndim >= 3
  THEN StackResults([k \in 1 .. a.n |->
         TakeLooks2D(Layer(a, k - 1), row_looks, col_looks, func_type,
                     LayerEdge(edge_strategy))])
  ELSE TakeLooks2D(a, row_looks, col_looks, func_type, edge_strategy)

TakeLooks(a, row_looks, col_looks, func_type, edge_strategy) ==
  IF row_looks = 1 /\ col_looks = 1 THEN Return(a)
  ELSE IF a.ndim >= 3
  THEN StackResults([k \in 1 .. a.n |->
         TakeLooks2D(Layer(a, k - 1), row_looks, col_looks, func_type,
                     LayerEdge(edge_strategy))])
  ELSE TakeLooks2D(a, row_looks, col_looks, func_type, edge_strategy)

\* the local `arr` after line 382, when the call gets there
Reconciled(a, row_looks, col_looks, edge_strategy) ==
  IF (row_looks = 1 /\ col_looks = 1) \/ a.ndim >= 3 THEN None
  ELSE MakeDimsMultiples(a, row_looks, col_looks, edge_strategy)

\* ------------------------------------------------------- upsample_nearest
NoLooks == <<>>

\* output_shape[-2:]
Trailing(shape) == <<shape[Len(shape) - 1], shape[Len(shape)]>>

InferLooks_Ceil(in_rows, in_cols, out_rows, out_cols) ==
  <<(out_rows + in_rows - 1) \div in_rows, (out_cols + in_cols - 1) \div in_cols>>

\* lines 457-458: row_looks = out_rows // in_rows, col_looks = out_cols // in_cols
InferLooks(in_rows, in_cols, out_rows, out_cols) ==
  <<out_rows \div in_rows, out_cols \div in_cols>>

\* lines 456-460: the look factors the call works with
UpsampleLooks(a, output_shape, looks) ==
  LET out == Trailing(output_shape)
  IN  IF looks = NoLooks
      THEN IF a.rows = 0 \/ a.cols = 0
           THEN Raise("ZeroDivisionError", "integer division or modulo by zero")
           ELSE Return(InferLooks(a.rows, a.cols, out[1], out[2]))
      ELSE Return(looks)

RepeatIndex_Tile(i, looks, size) == i % size

\* xp.repeat(arr, looks, axis): cell i of the result is cell i // looks of arr
RepeatIndex(i, looks, size) == i \div looks

\* xp.repeat(xp.repeat(arr, row_looks, axis=-2), col_looks, axis=-1)
Repeat(a, row_looks, col_looks) ==
  [obj |-> "new", dtype |-> a.dtype, ndim |-> a.ndim, n |-> a.n,
   rows |-> a.rows * row_looks, cols |-> a.cols * col_looks,
   v |-> [t \in Cells(a.n, a.rows * row_looks, a.cols * col_looks) |->
            a.v[<<t[1], RepeatIndex(t[2], row_looks, a.rows),
                  RepeatIndex(t[3], col_looks, a.cols)>>]]]

\* lines 465-470: a zero buffer of the output shape with the overlap copied in
Reconcile(a, arr_up, out_rows, out_cols) ==
  LET out_r == Min(out_rows, arr_up.rows)
      out_c == Min(out_cols, arr_up.cols)
  IN  [obj |-> "new", dtype |-> a.dtype, ndim |-> a.ndim, n |-> a.n,
       rows |-> out_rows, cols |-> out_cols,
       v |-> [t \in Cells(a.n, out_rows, out_cols) |->
                IF t[2] < out_r /\ t[3] < out_c THEN arr_up.v[t] ELSE 0]]

UpsampleNearest(a, output_shape, looks) ==
  LET out == Trailing(output_shape)
      lk == UpsampleLooks(a, output_shape, looks)
  IN  IF <<a.rows, a.cols>> = out THEN Return(a)
      ELSE IF lk.kind = "raise" THEN lk
      ELSE Return(Reconcile(a, Repeat(a, lk.val[1], lk.val[2]), out[1], out[2]))

\* the locals (row_looks, col_looks) after line 460, when the call gets there
UsedLooks(a, output_shape, looks) ==
  IF <<a.rows, a.cols>> = Trailing(output_shape) THEN None
  ELSE UpsampleLooks(a, output_shape, looks)

\* ------------------------------------------------------- gpu_is_available
\* what each probe does in the environment the call runs in: "ok", or the
\* exception it raises; "notrun" for a probe the call never gets to
Exceptions == {"ImportError", "ModuleNotFoundError", "CudaSupportError",
               "OSError", "FileNotFoundError", "RuntimeError"}

\* the class an exception class derives from: Python's built-in hierarchy, and
\* numba's class CudaSupportError(ImportError)
BaseClass(e) ==
  CASE e = "ModuleNotFoundError" -> "ImportError"
    [] e = "CudaSupportError" -> "ImportError"
    [] e = "FileNotFoundError" -> "OSError"
    [] OTHER -> "Exception"

\* isinstance(e, cls): an except clause catches the class and its subclasses
RECURSIVE IsInstance(_, _)
IsInstance(e, cls) ==
  IF e = cls THEN TRUE
  ELSE IF e = "Exception" THEN FALSE
  ELSE IsInstance(BaseClass(e), cls)

Envs ==
  { [import |-> x, version |-> "notrun", devices |-> "notrun", n_gpu |-> 0] :
      x \in Exceptions }
  \cup
  { [import |-> "ok", version |-> x, devices |-> "notrun", n_gpu |-> 0] :
      x \in Exceptions }
  \cup
  { [import |-> "ok", version |-> "ok", devices |-> x, n_gpu |-> 0] :
      x \in Exceptions }
  \cup
  { [import |-> "ok", version |-> "ok", devices |-> "ok", n_gpu |-> g] :
      g \in 0 .. MaxGpus }

\* try: probe except caught: return False; any other exception propagates
Probe(outcome, caught) ==
  IF outcome = "ok" THEN None
  ELSE IF IsInstance(outcome, caught) THEN Return(FALSE)
  ELSE Raise(outcome, "")

GpuIsAvailable(env) ==
  LET p1 == Probe(env.import, "ImportError")
      p2 == Probe(env.version, "OSError")
      p3 == Probe(env.devices, "CudaSupportError")
  IN  IF p1.kind # "none" THEN p1
      ELSE IF p2.kind # "none" THEN p2
      ELSE IF p3.kind # "none" THEN p3
      ELSE IF env.n_gpu < 1 THEN Return(FALSE)
      ELSE Return(TRUE)

\* ------------------------------------------------------------ the calls
NoCall == [row_looks |-> 0, col_looks |-> 0, func_type |-> "", edge_strategy |-> ""]
NoUpCall == [output_shape |-> <<0, 0>>, looks |-> NoLooks]
NoProbe == [env |-> [import |-> "notrun", version |-> "notrun",
                     devices |-> "notrun", n_gpu |-> 0],
            result |-> None]

Init == /\ arr \in Arrays
        /\ pc = "idle"
        /\ call = NoCall
        /\ reconciled = None
        /\ res = None
        /\ upcall = NoUpCall
        /\ used_looks = None
        /\ up = None
        /\ gpu = NoProbe

\* take_looks(arr, row_looks, col_looks, func_type, edge_strategy)
CallTakeLooks ==
  /\ pc = "idle"
  /\ \E row_looks \in 1 .. MaxLooks, col_looks \in 1 .. MaxLooks,
        func_type \in FuncTypes, edge_strategy \in EdgeStrategies :
       /\ call' = [row_looks |-> row_looks, col_looks |-> col_looks,
                   func_type |-> func_type, edge_strategy |-> edge_strategy]
       /\ reconciled' = Reconciled(arr, row_looks, col_looks, edge_strategy)
       /\ res' = TakeLooks(arr, row_looks, col_looks, func_type, edge_strategy)
  /\ pc' = "looked"
  /\ UNCHANGED <<arr, upcall, used_looks, up, gpu>>

\* upsample_nearest(arr, output_shape, looks) on a small array
CallUpsampleNearest ==
  /\ pc = "idle"
  /\ arr.rows <= MaxUpDim /\ arr.cols <= MaxUpDim
  /\ \E output_shape \in (1 .. MaxOut) \X (1 .. MaxOut),
        looks \in {NoLooks} \cup ((1 .. MaxLooks) \X (1 .. MaxLooks)) :
       /\ upcall' = [output_shape |-> output_shape, looks |-> looks]
       /\ used_looks' = UsedLooks(arr, output_shape, looks)
       /\ up' = UpsampleNearest(arr, output_shape, looks)
  /\ pc' = "upsampled"
  /\ UNCHANGED <<arr, call, reconciled, res, gpu>>

\* the round trip: upsample_nearest(take_looks(arr, ...), arr.shape[-2:], looks)
\* with the looks of the downsampling, or with looks omitted
CallUpsampleResult ==
  /\ pc = "looked"
  /\ res.kind = "return"
  /\ \E looks \in {NoLooks, <<call.row_looks, call.col_looks>>} :
       /\ upcall' = [output_shape |-> <<arr.rows, arr.cols>>, looks |-> looks]
       /\ used_looks' = UsedLooks(res.val, <<arr.rows, arr.cols>>, looks)
       /\ up' = UpsampleNearest(res.val, <<arr.rows, arr.cols>>, looks)
  /\ pc' = "roundtrip"
  /\ UNCHANGED <<arr, call, reconciled, res, gpu>>

\* gpu_is_available() in some environment
CallGpuIsAvailable ==
  /\ pc = "idle"
  /\ \E env \in Envs : gpu' = [env |-> env, result |-> GpuIsAvailable(env)]
  /\ pc' = "probed"
  /\ UNCHANGED <<arr, call, reconciled, res, upcall, used_looks, up>>

Next == \/ CallTakeLooks
        \/ CallUpsampleNearest
        \/ CallUpsampleResult
        \/ CallGpuIsAvailable

Spec == Init /\ [][Next]_vars

\* ================================================================ claims
\* Helpers of the claims: what the specification says a result is, written
\* from the block arithmetic and not from the reshape.

Ceil(a, b) == (a + b - 1) \div b

IsPlain2D == arr.ndim = 2

LooksAreOne == call.row_looks = 1 /\ call.col_looks = 1

\* the input cells in rows i*r .. i*r+r-1 and columns j*c .. j*c+c-1 of layer
\* k, those outside the array replaced by `outside`
BlockOf(a, k, i, j, r, c, outside) ==
  [q \in 1 .. r * c |->
     LET x == i * r + ((q - 1) \div c)
         y == j * c + ((q - 1) % c)
     IN  IF x < a.rows /\ y < a.cols THEN a.v[<<k, x, y>>] ELSE outside]

SameResult(x, y) ==
  /\ x.kind = y.kind
  /\ x.kind = "return" => SameValues(x.val, y.val)
  /\ x.kind = "raise" => x.exc = y.exc /\ x.msg = y.msg

\* the array upsample_nearest was called on
UpInput == IF pc = "roundtrip" THEN res.val ELSE arr

\* C1: take_looks on a 3D array equals the stack, in layer order, of
\* take_looks on each layer with the same reduction and the same edge strategy.
C1_StackOfLayers ==
  (pc = "looked" /\ arr.ndim = 3) =>
    SameResult(res,
               StackResults([k \in 1 .. arr.n |->
                 TakeLooks(Layer(arr, k - 1), call.row_looks, call.col_looks,
                           call.func_type, call.edge_strategy)]))

\* C2: take_looks(a, 2, 2, edge_strategy=s) raises ValueError naming s for every
\* s outside {cutoff, pad} and every 2D or 3D array; it never returns.
C2_InvalidEdgeRaises ==
  (/\ pc = "looked"
   /\ call.edge_strategy \notin {"cutoff", "pad"}
   /\ call.row_looks = 2 /\ call.col_looks = 2) =>
    /\ res.kind = "raise"
    /\ res.exc = "ValueError"
    /\ res.msg = call.edge_strategy

\* C3: gpu_is_available never propagates an error: it returns true only if the
\* three probes succeed with at least one device, and false for any failure of
\* any probe, whatever the exception.
C3_ProbeNeverRaises ==
  pc = "probed" =>
    /\ gpu.result.kind = "return"
    /\ gpu.result.val = (/\ gpu.env.import = "ok"
                         /\ gpu.env.version = "ok"
                         /\ gpu.env.devices = "ok"
                         /\ gpu.env.n_gpu >= 1)

\* C4 as stated: with look factors (1,1) both operations return the very same
\* input object, for any reduction, edge strategy and output shape.
C4_IdentityLooksAnyShape ==
  /\ (pc = "looked" /\ LooksAreOne) => res = Return(arr)
  /\ (pc \in {"upsampled", "roundtrip"} /\ upcall.looks = <<1, 1>>) =>
       up = Return(UpInput)

\* C4 as amended: take_looks(a, 1, 1, ...) returns a itself; upsample_nearest
\* (a, output_shape, looks=(1,1)) returns a itself exactly when the trailing
\* output shape equals a's, and otherwise a new array of the output shape with
\* a's top-left overlap and zeros elsewhere.
C4_IdentityLooks ==
  /\ (pc = "looked" /\ LooksAreOne) => res = Return(arr)
  /\ (pc \in {"upsampled", "roundtrip"} /\ upcall.looks = <<1, 1>>) =>
       LET a == UpInput
           out == Trailing(upcall.output_shape)
       IN  IF out = <<a.rows, a.cols>>
           THEN up = Return(a)
           ELSE /\ up.kind = "return"
                /\ up.val.obj = "new"
                /\ <<up.val.rows, up.val.cols>> = out
                /\ \A t \in Cells(a.n, out[1], out[2]) :
                     up.val.v[t] = IF t[2] < a.rows /\ t[3] < a.cols
                                   THEN a.v[t] ELSE 0

C4_Witness ==
  /\ pc = "upsampled"
  /\ upcall.looks = <<1, 1>>
  /\ upcall.output_shape = <<3, 1>>
  /\ arr.rows = 2 /\ arr.cols = 2
  /\ up.kind = "return" /\ up.val.obj = "new"

\* C5 as stated: under cutoff a 2D array of shape (R, C) reduces to shape
\* (R div r, C div c) and cell (i, j) is the reduction of exactly the input
\* cells of rows i*r .. i*r+r-1 and columns j*c .. j*c+c-1.
C5_CutoffBlocksAlways ==
  (/\ pc = "looked" /\ IsPlain2D
   /\ call.edge_strategy = "cutoff"
   /\ call.func_type \in NumpyFuncs) =>
    /\ res.kind = "return"
    /\ res.val.rows = arr.rows \div call.row_looks
    /\ res.val.cols = arr.cols \div call.col_looks
    /\ \A t \in Cells(1, res.val.rows, res.val.cols) :
         res.val.v[t] = Reduce(call.func_type,
                               BlockOf(arr, 0, t[2], t[3], call.row_looks,
                                       call.col_looks, NaN))

\* C5 as amended: the same for every look pair other than (1,1); with looks
\* (1,1) the input is returned as it is, so each cell is the input cell itself
\* (a NaN cell stays NaN where nansum of it would be 0).
C5_CutoffBlocks ==
  (/\ pc = "looked" /\ IsPlain2D
   /\ call.edge_strategy = "cutoff"
   /\ call.func_type \in NumpyFuncs) =>
    /\ res.kind = "return"
    /\ res.val.rows = arr.rows \div call.row_looks
    /\ res.val.cols = arr.cols \div call.col_looks
    /\ \A t \in Cells(1, res.val.rows, res.val.cols) :
         res.val.v[t] = IF LooksAreOne THEN arr.v[t]
                        ELSE Reduce(call.func_type,
                                    BlockOf(arr, 0, t[2], t[3], call.row_looks,
                                            call.col_looks, NaN))

C5_Witness ==
  /\ pc = "looked" /\ IsPlain2D
  /\ call.edge_strategy = "cutoff" /\ call.func_type = "nansum"
  /\ arr.rows = 5 /\ arr.cols = 2
  /\ call.row_looks = 2 /\ call.col_looks = 3
  /\ \E t \in DOMAIN arr.v : arr.v[t] = NaN
  /\ res.kind = "return"
  /\ res.val.rows = 2 /\ res.val.cols = 0

\* C6: under pad the reconciled 2D array has shape (ceil(R/r)*r, ceil(C/c)*c),
\* its top-left (R, C) region is the input, an axis that is already an exact
\* multiple gets no row or column, and take_looks returns shape
\* (ceil(R/r), ceil(C/c)).
C6_PadShape ==
  (pc = "looked" /\ IsPlain2D /\ call.edge_strategy = "pad") =>
    /\ reconciled.kind = "return" =>
         /\ reconciled.val.rows = Ceil(arr.rows, call.row_looks) * call.row_looks
         /\ reconciled.val.cols = Ceil(arr.cols, call.col_looks) * call.col_looks
         /\ \A t \in DOMAIN arr.v : reconciled.val.v[t] = arr.v[t]
         /\ arr.rows % call.row_looks = 0 => reconciled.val.rows = arr.rows
         /\ arr.cols % call.col_looks = 0 => reconciled.val.cols = arr.cols
    /\ reconciled.kind = "none" <=> LooksAreOne
    /\ call.func_type \in NumpyFuncs =>
         /\ res.kind = "return"
         /\ res.val.rows = Ceil(arr.rows, call.row_looks)
         /\ res.val.cols = Ceil(arr.cols, call.col_looks)

C6_Witness ==
  /\ pc = "looked" /\ IsPlain2D /\ call.edge_strategy = "pad"
  /\ arr.rows = 5 /\ arr.cols = 4
  /\ call.row_looks = 3 /\ call.col_looks = 2
  /\ reconciled.kind = "return"
  /\ reconciled.val.rows = 6 /\ reconciled.val.cols = 4
  /\ res.kind = "return"
  /\ res.val.rows = 2 /\ res.val.cols = 2

\* C7: with explicit looks (r, c) and an output shape whose trailing (H, W)
\* differs from the array's, upsample_nearest returns an array of trailing shape
\* (H, W), the leading axis unchanged, whose cell (i, j) is arr[i div r, j div c]
\* when i < min(H, rows*r) and j < min(W, cols*c), and zero otherwise.
C7_CropOrZeroPad ==
  (/\ pc \in {"upsampled", "roundtrip"}
   /\ upcall.looks # NoLooks
   /\ Trailing(upcall.output_shape) # <<UpInput.rows, UpInput.cols>>) =>
    LET a == UpInput
        r == upcall.looks[1]
        c == upcall.looks[2]
        H == Trailing(upcall.output_shape)[1]
        W == Trailing(upcall.output_shape)[2]
    IN  /\ up.kind = "return"
        /\ up.val.ndim = a.ndim /\ up.val.n = a.n
        /\ up.val.rows = H /\ up.val.cols = W
        /\ up.val.dtype = a.dtype
        /\ DOMAIN up.val.v = Cells(a.n, H, W)
        /\ \A t \in Cells(a.n, H, W) :
             up.val.v[t] = IF t[2] < Min(H, a.rows * r) /\ t[3] < Min(W, a.cols * c)
                           THEN a.v[<<t[1], t[2] \div r, t[3] \div c>>]
                           ELSE 0

\* cropped along the rows, zero-filled along the columns, on a stack
C7_Witness ==
  /\ pc = "upsampled"
  /\ arr.ndim = 3 /\ arr.n = 2 /\ arr.rows = 2 /\ arr.cols = 2
  /\ upcall.looks = <<2, 2>>
  /\ upcall.output_shape = <<3, 5>>
  /\ up.kind = "return"
  /\ arr.v[<<1, 1, 1>>] = 8
  /\ up.val.v[<<1, 2, 3>>] = 8
  /\ up.val.v[<<1, 2, 4>>] = 0

\* the sum of the in-bounds, non-NaN input cells of block (i, j)
InBoundsSum(a, i, j, r, c) == SumOf(ZeroNaN(BlockOf(a, 0, i, j, r, c, NaN)))

PaddedCellsAre(x) ==
  reconciled.kind = "return" =>
    \A t \in DOMAIN reconciled.val.v :
      (t[2] >= arr.rows \/ t[3] >= arr.cols) => reconciled.val.v[t] = x

OnesExample ==
  (/\ arr.rows = 5 /\ arr.cols = 5
   /\ \A t \in DOMAIN arr.v : arr.v[t] = 1
   /\ call.row_looks = 2 /\ call.col_looks = 2) =>
    /\ res.val.rows = 3 /\ res.val.cols = 3
    /\ [i \in 0 .. 2 |-> [j \in 0 .. 2 |-> res.val.v[<<0, i, j>>]]]
         = [i \in 0 .. 2 |-> [j \in 0 .. 2 |->
              CASE i < 2 /\ j < 2 -> 4
                [] i = 2 /\ j = 2 -> 1
                [] OTHER -> 2]]

\* C8 as stated: under pad with nansum on a 2D array, padded cells of a float
\* array are NaN, padded cells of a bool array are false, and every output cell
\* is the sum of only the real in-bounds input cells of its block; a 5x5 array
\* of ones with looks (2,2) gives [[4,4,2],[4,4,2],[2,2,1]].
C8_PadNansumAlways ==
  (/\ pc = "looked" /\ IsPlain2D
   /\ call.edge_strategy = "pad" /\ call.func_type = "nansum") =>
    /\ res.kind = "return"
    /\ PaddedCellsAre(IF arr.dtype = "bool" THEN 0 ELSE NaN)
    /\ arr.dtype = "float64" =>
         \A t \in DOMAIN res.val.v :
           res.val.v[t] = InBoundsSum(arr, t[2], t[3], call.row_looks, call.col_looks)
    /\ OnesExample

\* C8 as amended: the same for every look pair other than (1,1); with looks
\* (1,1) nothing is padded or summed and each output cell is the input cell
\* itself, NaN included.
C8_PadNansum ==
  (/\ pc = "looked" /\ IsPlain2D
   /\ call.edge_strategy = "pad" /\ call.func_type = "nansum") =>
    /\ res.kind = "return"
    /\ PaddedCellsAre(IF arr.dtype = "bool" THEN 0 ELSE NaN)
    /\ arr.dtype = "float64" =>
         \A t \in DOMAIN res.val.v :
           res.val.v[t] = IF LooksAreOne THEN arr.v[t]
                          ELSE InBoundsSum(arr, t[2], t[3], call.row_looks,
                                           call.col_looks)
    /\ OnesExample

C8_Witness ==
  /\ pc = "looked" /\ IsPlain2D
  /\ call.edge_strategy = "pad" /\ call.func_type = "nansum"
  /\ arr.dtype = "float64" /\ arr.rows = 5 /\ arr.cols = 5
  /\ \A t \in DOMAIN arr.v : arr.v[t] = 1
  /\ call.row_looks = 2 /\ call.col_looks = 2
  /\ reconciled.kind = "return"
  /\ reconciled.val.v[<<0, 5, 5>>] = NaN
  /\ res.kind = "return"
  /\ res.val.v[<<0, 2, 2>>] = 1 /\ res.val.v[<<0, 0, 2>>] = 2

\* the round trips C9 is about: a 2D array whose dimensions are exact multiples
\* of the looks, reduced with nansum under a valid edge strategy
ExactRoundTrip ==
  /\ pc = "roundtrip" /\ IsPlain2D
  /\ call.func_type = "nansum"
  /\ call.edge_strategy \in {"cutoff", "pad"}
  /\ arr.rows % call.row_looks = 0
  /\ arr.cols % call.col_looks = 0

\* C9 as stated: on exact multiples the round trip has shape (R, C), holds no
\* zero fill, cell (i, j) is the sum of the input block containing (i, j), and
\* omitting looks gives the same result as passing them.
C9_RoundTripAlways ==
  ExactRoundTrip =>
    /\ up.kind = "return"
    /\ up.val.rows = arr.rows /\ up.val.cols = arr.cols
    /\ used_looks.kind = "return" =>
         /\ used_looks.val = <<call.row_looks, call.col_looks>>
         /\ res.val.rows * used_looks.val[1] >= arr.rows
         /\ res.val.cols * used_looks.val[2] >= arr.cols
    /\ \A t \in Cells(1, arr.rows, arr.cols) :
         up.val.v[t] = InBoundsSum(arr, t[2] \div call.row_looks,
                                   t[3] \div call.col_looks,
                                   call.row_looks, call.col_looks)
    /\ SameResult(up, UpsampleNearest(res.val, <<arr.rows, arr.cols>>,
                                      <<call.row_looks, call.col_looks>>))

\* C9 as amended: the same for every look pair other than (1,1); with looks
\* (1,1) the round trip returns the input itself, so a NaN cell stays NaN.
C9_RoundTrip ==
  ExactRoundTrip =>
    /\ up.kind = "return"
    /\ up.val.rows = arr.rows /\ up.val.cols = arr.cols
    /\ used_looks.kind = "return" =>
         /\ used_looks.val = <<call.row_looks, call.col_looks>>
         /\ res.val.rows * used_looks.val[1] >= arr.rows
         /\ res.val.cols * used_looks.val[2] >= arr.cols
    /\ \A t \in Cells(1, arr.rows, arr.cols) :
         up.val.v[t] = IF LooksAreOne THEN arr.v[t]
                       ELSE InBoundsSum(arr, t[2] \div call.row_looks,
                                        t[3] \div call.col_looks,
                                        call.row_looks, call.col_looks)
    /\ LooksAreOne => up = Return(arr)
    /\ SameResult(up, UpsampleNearest(res.val, <<arr.rows, arr.cols>>,
                                      <<call.row_looks, call.col_looks>>))

C9_Witness ==
  /\ ExactRoundTrip
  /\ arr.rows = 4 /\ arr.cols = 4
  /\ \A t \in DOMAIN arr.v : arr.v[t] = 1
  /\ call.row_looks = 2 /\ call.col_looks = 2
  /\ upcall.looks = NoLooks
  /\ up.kind = "return"
  /\ \A t \in Cells(1, 4, 4) : up.val.v[t] = 4

\* the round trips C10 is about: looks omitted, after a cutoff downsampling by
\* r of a row count R that is no multiple of r, with floor(R/r) >= 1
InferredAfterCutoff ==
  /\ pc = "roundtrip"
  /\ upcall.looks = NoLooks
  /\ call.edge_strategy = "cutoff"
  /\ arr.rows % call.row_looks # 0
  /\ arr.rows \div call.row_looks >= 1
  /\ used_looks.kind = "return"

InferredByDivision ==
  (/\ pc \in {"upsampled", "roundtrip"}
   /\ upcall.looks = NoLooks
   /\ used_looks.kind = "return") =>
    /\ used_looks.val[1] = Trailing(upcall.output_shape)[1] \div UpInput.rows
    /\ used_looks.val[2] = Trailing(upcall.output_shape)[2] \div UpInput.cols

\* C10 as stated: omitted looks are inferred as output // input, and after a
\* cutoff downsampling of a non-multiple dimension the inferred factor is
\* smaller than the look factor used.
C10_InferredUnderCounts ==
  /\ InferredByDivision
  /\ InferredAfterCutoff => used_looks.val[1] < call.row_looks

\* C10 as amended: omitted looks are inferred as output // input, and after a
\* cutoff downsampling of a non-multiple dimension R by r the inferred factor is
\* r + (R mod r) div (R div r): never smaller than r, and larger than r when
\* R mod r >= R div r.
C10_InferredNeverUnder ==
  /\ InferredByDivision
  /\ InferredAfterCutoff =>
       /\ used_looks.val[1] >= call.row_looks
       /\ used_looks.val[1] = call.row_looks
            + ((arr.rows % call.row_looks) \div (arr.rows \div call.row_looks))

C10_Witness ==
  /\ InferredAfterCutoff
  /\ arr.rows = 5 /\ call.row_looks = 3
  /\ res.val.rows = 1
  /\ used_looks.val[1] = 5

====
